---- MODULE Spec2Model ----
(***************************************************************************)
(* The streaming transcription client of meeting-recorder                  *)
(* (meeting-transcriber.py, class MeetingTranscriber).                     *)
(*                                                                         *)
(* The client is one asyncio program: run() sets the meeting directory up, *)
(* connects, and then runs send_audio and receive_transcriptions as two    *)
(* tasks of one event loop.  A task runs without interruption from one     *)
(* await to the next, so every action below is the code between two awaits *)
(* of one task.  The audio source, the transcription server, the network,  *)
(* the disk, the wall clock and the signals are the environment: their     *)
(* actions are enabled whenever the program can observe them.              *)
(***************************************************************************)
EXTENDS Integers, Sequences, FiniteSets, TLC

\* ---------------------------------------------------------------- bounds
\* Connections the server accepts in one run (further connects fail): the
\* first one, and one for a reconnect of each path.
MaxConns == 3
\* Inputs one run takes from outside, in total: audio chunks read, messages
\* the server delivers, ticks of the wall clock.
MaxInputs == 2
\* CloseSpec: ticks of the wall clock, and calls of update_metadata_ended.
MaxCloseClock == 4
MaxCloses == 3

\* ------------------------------------------------------ program constants
\* self.ws = None
NoConn == 0
\* self.reconnect_delay = 1, and connect()'s reset
initial_reconnect_delay == 1
\* self.max_reconnect_delay = 30
max_reconnect_delay == 30

None == <<>>
Tasks == {"send", "recv"}
Callers == {"main", "send", "recv"}
ConnIds == 1..MaxConns

VARIABLES
    pc,               \* where run(), send_audio, receive_transcriptions stand
    running,          \* self.running
    ws,               \* self.ws: NoConn or the connection last opened
    reconnect_delay,  \* self.reconnect_delay
    conn,             \* every connection: "unused", "open" or "closed"
    slept,            \* per task: the delay its _reconnect sleeps (0: not in it)
    rconn,            \* the connection whose recv() is awaited (NoConn: none)
    hconn,            \* per caller of connect(): the connection it has opened
                      \* and sends the handshake on (NoConn: none)
    chunk,            \* the chunk send_audio holds (0: none)
    nread,            \* chunks read from stdin so far
    transcript,       \* transcript.txt: its lines
    mentions,         \* mentions.txt: its lines
    metadata,         \* metadata.json
    current,          \* the 'current' symlink: "absent", or the meeting directory
                      \* it points to ("this" meeting's, a "previous" one's)
    clock,            \* the wall clock (datetime.now)
    events,           \* messages the server has delivered
    signalled,        \* history: SIGINT/SIGTERM was delivered
    closeCalls,       \* history: calls of update_metadata_ended
    endedWrites,      \* history: times ended_at was written
    lastConnect,      \* history: how the last connect() ended
    okSince,          \* history: no _reconnect has slept since the last success
    prevWait,         \* history: the wait before the last failed reconnect (0: none)
    lastWrite,        \* history: how the last _write_transcript ended, and its text
    keywords,         \* the global MENTION_KEYWORDS, as _load_config left it
    wire,             \* per connection: the messages the client has sent on it,
                      \* <<type, number of the chunk (0: none)>>
    lastMsg,          \* history: what the last message received was (a
                      \* "line", a "blank" transcript, "ignored", "malformed")
    received          \* history: connection and text of every completed event
                      \* whose line was appended to transcript.txt

vars == <<pc, running, ws, reconnect_delay, conn, slept, rconn, hconn, chunk, nread,
          transcript, mentions, metadata, current, clock, events, signalled,
          closeCalls, endedWrites, lastConnect, okSince, prevWait,
          lastWrite, keywords, wire, lastMsg, received>>

fileVars == <<transcript, mentions, metadata, current>>
closeHist == <<closeCalls, endedWrites>>
recvHist == <<lastMsg, received>>

\* ------------------------------------------------------------------ text
\* A text is a sequence of one-character strings.
UpperCase == <<"A", "B", "C", "D", "E", "F", "G", "H", "I", "J", "K", "L", "M",
               "N", "O", "P", "Q", "R", "S", "T", "U", "V", "W", "X", "Y", "Z">>
LowerCase == <<"a", "b", "c", "d", "e", "f", "g", "h", "i", "j", "k", "l", "m",
               "n", "o", "p", "q", "r", "s", "t", "u", "v", "w", "x", "y", "z">>
Whitespace == {" ", "\t", "\n", "\r"}

\* str.lower(), one character
LowerChar(c) ==
    IF \E i \in 1..Len(UpperCase) : UpperCase[i] = c
    THEN LowerCase[CHOOSE i \in 1..Len(UpperCase) : UpperCase[i] = c]
    ELSE c

\* str.lower()
Lower(s) == [i \in 1..Len(s) |-> LowerChar(s[i])]

\* p in s
Contains(p, s) ==
    \E i \in 0..(Len(s) - Len(p)) : SubSeq(s, i + 1, i + Len(p)) = p

RECURSIVE LStrip(_)
LStrip(s) == IF s # <<>> /\ Head(s) \in Whitespace THEN LStrip(Tail(s)) ELSE s

RECURSIVE RStrip(_)
RStrip(s) ==
    IF s # <<>> /\ s[Len(s)] \in Whitespace
    THEN RStrip(SubSeq(s, 1, Len(s) - 1))
    ELSE s

\* Strip that strips nothing.
StripNothing(s) == s

\* str.strip()
Strip(s) == RStrip(LStrip(s))

\* MENTION_KEYWORDS (the built-in list)
MENTION_KEYWORDS ==
    << <<"c", "l", "a", "u", "d", "e">>,
       <<"a", "s", "s", "i", "s", "t", "a", "n", "t">>,
       <<"a", "i">> >>

question_phrases ==
    << <<"w", "h", "a", "t", " ", "d", "o", " ", "y", "o", "u", " ", "t", "h", "i", "n", "k">>,
       <<"c", "a", "n", " ", "y", "o", "u">>,
       <<"c", "o", "u", "l", "d", " ", "y", "o", "u">>,
       <<"w", "o", "u", "l", "d", " ", "y", "o", "u">>,
       <<"d", "o", " ", "y", "o", "u", " ", "k", "n", "o", "w">>,
       <<"w", "h", "a", "t", " ", "a", "b", "o", "u", "t">>,
       <<"h", "e", "y", " ", "c", "l", "a", "u", "d", "e">>,
       <<"h", "e", "y", " ", "a", "s", "s", "i", "s", "t", "a", "n", "t">> >>

\* IsQuestion with the phrases looked for in the transcript as received, not
\* in its lower-case form.
IsQuestionCaseSensitive(text) ==
    \/ Contains(<<"?">>, text)
    \/ \E i \in 1..Len(question_phrases) : Contains(question_phrases[i], text)

\* is_question of _check_mentions
IsQuestion(text) ==
    \/ Contains(<<"?">>, text)
    \/ \E i \in 1..Len(question_phrases) : Contains(question_phrases[i], Lower(text))

\* MentionLines without the break: a line for every keyword that matches.
RECURSIVE MentionLinesNoBreak(_, _, _, _)
MentionLinesNoBreak(kws, i, timestamp, text) ==
    IF i > Len(kws) THEN <<>>
    ELSE (IF Contains(Lower(kws[i]), Lower(text))
          THEN << [ts |-> timestamp,
                   kind |-> IF IsQuestion(text) THEN "QUESTION" ELSE "MENTION",
                   text |-> text] >>
          ELSE <<>>) \o MentionLinesNoBreak(kws, i + 1, timestamp, text)

\* The loop of _check_mentions over the keyword list kws, from keyword i on:
\* the line the first matching keyword appends to mentions.txt (the loop
\* breaks there), or no line.
RECURSIVE MentionLines(_, _, _, _)
MentionLines(kws, i, timestamp, text) ==
    IF i > Len(kws) THEN <<>>
    ELSE IF Contains(Lower(kws[i]), Lower(text))
         THEN << [ts |-> timestamp,
                  kind |-> IF IsQuestion(text) THEN "QUESTION" ELSE "MENTION",
                  text |-> text] >>
         ELSE MentionLines(kws, i + 1, timestamp, text)

\* _check_mentions(timestamp, transcript): the lines it appends, the global
\* MENTION_KEYWORDS being what _load_config left.
CheckMentions(timestamp, text) == MentionLines(keywords, 1, timestamp, text)

\* The transcripts the server sends in transcription.completed events.
Texts == { <<" ", "A", "i", "?">>, <<"o", "k">>, <<" ">> }

\* The kinds of message the server sends.
Kinds == {"completed", "speech_started", "speech_stopped", "error", "unknown",
          "malformed"}

\* ----------------------------------------------------------------- files
\* WriteTranscript (below) with the call of _check_mentions not depending on
\* the append to transcript.txt.
WriteTranscriptChecksAnyway(timestamp, text, okT, okM) ==
    LET line == [ts |-> timestamp, text |-> text]
        found == CheckMentions(timestamp, text)
    IN  [transcript |-> IF okT THEN Append(transcript, line) ELSE transcript,
         mentions |-> IF okM THEN mentions \o found ELSE mentions,
         outcome |-> IF ~okT THEN "transcript_failed"
                     ELSE IF found # <<>> /\ ~okM THEN "mention_failed"
                     ELSE "ok"]

\* WriteTranscript with transcript.txt opened in mode "w", not "a".
WriteTranscriptTruncates(timestamp, text, okT, okM) ==
    LET line == [ts |-> timestamp, text |-> text]
        found == CheckMentions(timestamp, text)
    IN  IF ~okT
        THEN [transcript |-> transcript, mentions |-> mentions,
              outcome |-> "transcript_failed"]
        ELSE IF found # <<>> /\ ~okM
        THEN [transcript |-> <<line>>, mentions |-> mentions,
              outcome |-> "mention_failed"]
        ELSE [transcript |-> <<line>>,
              mentions |-> mentions \o found,
              outcome |-> "ok"]

\* _write_transcript(transcript) at wall-clock time timestamp.  okT and okM
\* say whether the append to transcript.txt and the append to mentions.txt
\* succeed (an append that fails raises OSError and writes nothing).
\* _check_mentions is called after the append to transcript.txt returned.
WriteTranscript(timestamp, text, okT, okM) ==
    LET line == [ts |-> timestamp, text |-> text]
        found == CheckMentions(timestamp, text)
    IN  IF ~okT
        THEN [transcript |-> transcript, mentions |-> mentions,
              outcome |-> "transcript_failed"]
        ELSE IF found # <<>> /\ ~okM
        THEN [transcript |-> Append(transcript, line), mentions |-> mentions,
              outcome |-> "mention_failed"]
        ELSE [transcript |-> Append(transcript, line),
              mentions |-> mentions \o found,
              outcome |-> "ok"]

\* update_metadata_ended() at wall-clock time now; ok says whether reading
\* and rewriting metadata.json succeed (a failure is printed and swallowed).
UpdateMetadataEnded(md, now, ok) ==
    IF md.status # "absent" /\ ok
    THEN [md EXCEPT !.ended_at = <<now>>, !.status = "ended"]
    ELSE md

Min(a, b) == IF a < b THEN a ELSE b

\* NextDelay without the ceiling.
NextDelayUncapped(d) == d * 2

\* self.reconnect_delay = min(self.reconnect_delay * 2, self.max_reconnect_delay)
NextDelay(d) == Min(d * 2, max_reconnect_delay)

\* WireAfterHandshake without the session.update message.
WireWithoutHandshake(w, c) == w

\* ws.send(json.dumps(session_config)) on connection c
WireAfterHandshake(w, c) == [w EXCEPT ![c] = Append(@, <<"session.update", 0>>)]

\* WireAfterSend with the event sent again.
WireAfterSendTwice(w, c, k) ==
    [w EXCEPT ![c] = Append(Append(@, <<"input_audio_buffer.append", k>>),
                            <<"input_audio_buffer.append", k>>)]

\* ws.send(json.dumps(audio_event)) of chunk k on connection c
WireAfterSend(w, c, k) == [w EXCEPT ![c] = Append(@, <<"input_audio_buffer.append", k>>)]

\* The connection websockets.connect opens next.
FreshConn == CHOOSE c \in ConnIds : conn[c] = "unused" /\ \A d \in ConnIds : d < c => conn[d] # "unused"

\* ------------------------------------------------------------------ init
\* The state after MeetingTranscriber.__init__, when run() is entered.
Init ==
    /\ pc = [main |-> "setup", send |-> "idle", recv |-> "idle"]
    /\ running = TRUE
    /\ ws = NoConn
    /\ reconnect_delay = initial_reconnect_delay
    /\ conn = [c \in ConnIds |-> "unused"]
    /\ slept = [t \in Tasks |-> 0]
    /\ rconn = NoConn
    /\ hconn = [c \in Callers |-> NoConn]
    /\ chunk = 0
    /\ nread = 0
    /\ transcript = <<>>
    /\ mentions = <<>>
    /\ metadata = [status |-> "absent", started_at |-> None, ended_at |-> None]
    /\ current \in {"absent", "previous"}
    /\ clock = 0
    /\ events = 0
    /\ signalled = FALSE
    /\ closeCalls = 0
    /\ endedWrites = 0
    /\ lastConnect = "none"
    /\ okSince = FALSE
    /\ prevWait = 0
    /\ lastWrite = <<"none", <<>>>>
    /\ keywords = MENTION_KEYWORDS
    /\ wire = [c \in ConnIds |-> <<>>]
    /\ lastMsg = "none"
    /\ received = <<>>

\* ------------------------------------------------------------- scheduling
\* LoopHeldBy with sys.stdin.buffer.read called in the coroutine itself, not
\* handed to an executor.
ReadInCoroutine(t) == t = "send" /\ pc["send"] = "read"

\* Task t keeps the thread of the event loop while it waits.  No task does:
\* the blocking read of stdin runs in an executor thread (run_in_executor),
\* and the sends, the recv and the sleeps are awaited.
LoopHeldBy(t) == FALSE

\* The event loop can run a step of task t: no other task keeps its thread.
CanRun(t) == \A u \in Tasks \ {t} : ~LoopHeldBy(u)

\* ------------------------------------------------------------ environment
\* The inputs taken so far.
Inputs == nread + events + clock

\* signal_handler: SIGINT or SIGTERM is delivered while run() is active.
Signal ==
    /\ pc["main"] # "done"
    /\ ~signalled
    /\ running' = FALSE
    /\ signalled' = TRUE
    /\ UNCHANGED <<pc, ws, reconnect_delay, conn, slept, rconn, hconn, chunk, nread,
                   fileVars, clock, events, closeHist, lastConnect,
                   okSince, prevWait, lastWrite,
                   keywords, wire, recvHist>>

\* The wall clock advances.
Tick ==
    /\ pc["main"] # "done"
    /\ Inputs < MaxInputs
    /\ clock' = clock + 1
    /\ UNCHANGED <<pc, running, ws, reconnect_delay, conn, slept, rconn, hconn, chunk,
                   nread, fileVars, events, signalled, closeHist, lastConnect,
                   okSince, prevWait, lastWrite,
                   keywords, wire, recvHist>>

\* The server or the network closes connection c.
ConnectionLost(c) ==
    /\ conn[c] = "open"
    /\ pc["main"] # "done"
    /\ conn' = [conn EXCEPT ![c] = "closed"]
    /\ UNCHANGED <<pc, running, ws, reconnect_delay, slept, rconn, hconn, chunk, nread,
                   fileVars, clock, events, signalled, closeHist, lastConnect,
                   okSince, prevWait, lastWrite,
                   keywords, wire, recvHist>>

\* ------------------------------------------------------------------ run()
\* CurrentAfterSetup that leaves a symlink it finds in place.
CurrentKeptIfPresent(cur) == IF cur = "absent" THEN "this" ELSE cur

\* The 'current' symlink when setup_meeting_directory is over: a symlink
\* found there is unlinked, and the new one points to this meeting.
CurrentAfterSetup(cur) == "this"

\* setup_meeting_directory()
SetupMeetingDirectory ==
    /\ pc["main"] = "setup"
    /\ transcript' = <<>>
    /\ mentions' = <<>>
    /\ metadata' = [status |-> "active", started_at |-> <<clock>>, ended_at |-> None]
    /\ current' = CurrentAfterSetup(current)
    /\ pc' = [pc EXCEPT !["main"] = "connecting"]
    /\ UNCHANGED <<running, ws, reconnect_delay, conn, slept, rconn, hconn, chunk,
                   nread, clock, events, signalled, closeHist, lastConnect,
                   okSince, prevWait, lastWrite,
                   keywords, wire, recvHist>>

\* AfterConnectError with run()'s cleanup in the try body, not in finally.
AfterConnectErrorSkipsFinally(c) == IF c = "main" THEN "done" ELSE "loop"

\* Where an exception raised by connect() takes its caller: run() has the
\* call in try/except/finally, _reconnect prints it and returns to the loop.
AfterConnectError(c) == IF c = "main" THEN "finally" ELSE "loop"

\* connect() raises in caller c.
ConnectRaised(c) ==
    /\ pc' = [pc EXCEPT ![c] = AfterConnectError(c)]
    /\ hconn' = [hconn EXCEPT ![c] = NoConn]
    /\ slept' = [t \in Tasks |-> IF t = c THEN 0 ELSE slept[t]]
    /\ lastConnect' = "failed"
    /\ prevWait' = IF c = "main" THEN prevWait ELSE slept[c]
    /\ UNCHANGED okSince

\* connect(): websockets.connect(url) returns a connection, stored in self.ws.
ConnectOpens(c) ==
    /\ pc[c] = "connecting"
    /\ \E d \in ConnIds : conn[d] = "unused"
    /\ conn' = [conn EXCEPT ![FreshConn] = "open"]
    /\ ws' = FreshConn
    /\ hconn' = [hconn EXCEPT ![c] = FreshConn]
    /\ pc' = [pc EXCEPT ![c] = "handshake"]
    /\ UNCHANGED <<running, reconnect_delay, slept, rconn, chunk, nread, fileVars,
                   clock, events, signalled, closeHist, lastConnect,
                   okSince, prevWait, lastWrite,
                   keywords, wire, recvHist>>

\* connect(): websockets.connect(url) raises.
ConnectFails(c) ==
    /\ pc[c] = "connecting"
    /\ ConnectRaised(c)
    /\ UNCHANGED <<running, ws, reconnect_delay, conn, rconn, chunk, nread,
                   fileVars, clock, events, signalled, closeHist, lastWrite,
                   keywords, wire, recvHist>>

\* connect(): ws.send(session.update) on the connection just opened (self.ws
\* is read right after it was assigned, so the message goes to that
\* connection), then the reset of reconnect_delay; or the send raises
\* ConnectionClosed.
Handshake(c) ==
    /\ pc[c] = "handshake"
    /\ IF conn[hconn[c]] = "open"
       THEN /\ wire' = WireAfterHandshake(wire, hconn[c])
            /\ reconnect_delay' = initial_reconnect_delay
            /\ pc' = IF c = "main"
                     THEN [main |-> "gather", send |-> "loop", recv |-> "loop"]
                     ELSE [pc EXCEPT ![c] = "loop"]
            /\ hconn' = [hconn EXCEPT ![c] = NoConn]
            /\ slept' = [t \in Tasks |-> IF t = c THEN 0 ELSE slept[t]]
            /\ lastConnect' = "ok"
            /\ okSince' = TRUE
            /\ prevWait' = 0
       ELSE /\ ConnectRaised(c)
            /\ UNCHANGED <<reconnect_delay, wire>>
    /\ UNCHANGED <<running, ws, conn, rconn, chunk, nread, fileVars, clock, events,
                   signalled, closeHist, lastWrite,
                   keywords, recvHist>>

\* GatherDone for a wait that returns when the first task has returned.
GatherFirstCompleted == pc["send"] = "done" \/ pc["recv"] = "done"

\* asyncio.gather(send_audio(), receive_transcriptions()) is done: both
\* tasks have returned.
GatherDone == pc["send"] = "done" /\ pc["recv"] = "done"

\* asyncio.gather returns when both tasks have returned.
GatherReturns ==
    /\ pc["main"] = "gather"
    /\ GatherDone
    /\ pc' = [pc EXCEPT !["main"] = "finally"]
    /\ UNCHANGED <<running, ws, reconnect_delay, conn, slept, rconn, hconn, chunk,
                   nread, fileVars, clock, events, signalled, closeHist,
                   lastConnect, okSince, prevWait, lastWrite,
                   keywords, wire, recvHist>>

\* finally: running = False, update_metadata_ended(), and ws.close() is
\* awaited when there is a connection; without one the symlink goes at once.
Finally(ok) ==
    /\ pc["main"] = "finally"
    /\ running' = FALSE
    /\ metadata' = UpdateMetadataEnded(metadata, clock, ok)
    /\ closeCalls' = closeCalls + 1
    /\ endedWrites' = IF metadata.status # "absent" /\ ok
                      THEN endedWrites + 1 ELSE endedWrites
    /\ IF ws # NoConn
       THEN pc' = [pc EXCEPT !["main"] = "closing"] /\ UNCHANGED current
       ELSE pc' = [pc EXCEPT !["main"] = "done"] /\ current' = "absent"
    /\ UNCHANGED <<ws, reconnect_delay, conn, slept, rconn, hconn, chunk, nread,
                   transcript, mentions, clock, events, signalled, lastConnect,
                   okSince, prevWait, lastWrite,
                   keywords, wire, recvHist>>

\* finally: ws.close() returns, the 'current' symlink is removed.
CloseConnection ==
    /\ pc["main"] = "closing"
    /\ conn' = [conn EXCEPT ![ws] = "closed"]
    /\ current' = "absent"
    /\ pc' = [pc EXCEPT !["main"] = "done"]
    /\ UNCHANGED <<running, ws, reconnect_delay, slept, rconn, hconn, chunk, nread,
                   transcript, mentions, metadata, clock, events, signalled,
                   closeHist, lastConnect, okSince, prevWait, lastWrite,
                   keywords, wire, recvHist>>

\* ----------------------------------------------------------- _reconnect()
\* _reconnect() is entered by task t: it returns at once when running is
\* False, and otherwise sleeps reconnect_delay.
EnterReconnect(t) ==
    IF ~running
    THEN /\ pc' = [pc EXCEPT ![t] = "loop"]
         /\ UNCHANGED <<slept, okSince>>
    ELSE /\ pc' = [pc EXCEPT ![t] = "sleep"]
         /\ slept' = [slept EXCEPT ![t] = reconnect_delay]
         /\ okSince' = FALSE

\* _reconnect(): the sleep is over, the delay is doubled, connect() is called.
WakeAndConnect(t) ==
    /\ pc[t] = "sleep"
    /\ reconnect_delay' = NextDelay(reconnect_delay)
    /\ pc' = [pc EXCEPT ![t] = "connecting"]
    /\ UNCHANGED <<running, ws, conn, slept, rconn, hconn, chunk, nread, fileVars,
                   clock, events, signalled, closeHist, lastConnect,
                   okSince, prevWait, lastWrite,
                   keywords, wire, recvHist>>

\* ------------------------------------------------------------ send_audio()
\* while self.running: the read of the next chunk is handed to the executor.
SendLoop ==
    /\ pc["send"] = "loop"
    /\ CanRun("send")
    /\ pc' = [pc EXCEPT !["send"] = IF running THEN "read" ELSE "done"]
    /\ UNCHANGED <<running, ws, reconnect_delay, conn, slept, rconn, hconn, chunk,
                   nread, fileVars, clock, events, signalled, closeHist,
                   lastConnect, okSince, prevWait, lastWrite,
                   keywords, wire, recvHist>>

\* sys.stdin.buffer.read returns a chunk.
ReadChunk ==
    /\ pc["send"] = "read"
    /\ CanRun("send")
    /\ Inputs < MaxInputs
    /\ nread' = nread + 1
    /\ chunk' = nread + 1
    /\ pc' = [pc EXCEPT !["send"] = "send"]
    /\ UNCHANGED <<running, ws, reconnect_delay, conn, slept, rconn, hconn, fileVars,
                   clock, events, signalled, closeHist, lastConnect,
                   okSince, prevWait, lastWrite,
                   keywords, wire, recvHist>>

\* sys.stdin.buffer.read returns b"": the audio stream ended, the loop breaks.
ReadEndOfStream ==
    /\ pc["send"] = "read"
    /\ CanRun("send")
    /\ pc' = [pc EXCEPT !["send"] = "done"]
    /\ UNCHANGED <<running, ws, reconnect_delay, conn, slept, rconn, hconn, chunk,
                   nread, fileVars, clock, events, signalled, closeHist,
                   lastConnect, okSince, prevWait, lastWrite,
                   keywords, wire, recvHist>>

\* if self.ws: ws.send(input_audio_buffer.append); ConnectionClosed calls
\* _reconnect().
SendChunk ==
    /\ pc["send"] = "send"
    /\ CanRun("send")
    /\ chunk' = 0
    /\ IF ws # NoConn /\ conn[ws] = "closed"
       THEN EnterReconnect("send") /\ UNCHANGED wire
       ELSE /\ pc' = [pc EXCEPT !["send"] = "loop"]
            /\ wire' = IF ws # NoConn THEN WireAfterSend(wire, ws, chunk) ELSE wire
            /\ UNCHANGED <<slept, okSince>>
    /\ UNCHANGED <<running, ws, reconnect_delay, conn, rconn, hconn, nread, fileVars,
                   clock, events, signalled, closeHist, lastConnect,
                   prevWait, lastWrite,
                   keywords, recvHist>>

\* ------------------------------------------------ receive_transcriptions()
\* while self.running: without a connection sleep 0.1 and look again, with
\* one await ws.recv() on it.
ReceiveLoop ==
    /\ pc["recv"] = "loop"
    /\ CanRun("recv")
    /\ IF ~running
       THEN pc' = [pc EXCEPT !["recv"] = "done"] /\ UNCHANGED rconn
       ELSE IF ws = NoConn
       THEN UNCHANGED <<pc, rconn>>
       ELSE pc' = [pc EXCEPT !["recv"] = "recv"] /\ rconn' = ws
    /\ UNCHANGED <<running, ws, reconnect_delay, conn, slept, hconn, chunk, nread,
                   fileVars, clock, events, signalled, closeHist, lastConnect,
                   okSince, prevWait, lastWrite,
                   keywords, wire, recvHist>>

\* AfterReceiveException with a handler that leaves the loop, as the one of
\* send_audio does.
AfterReceiveExceptionBreaks == "done"

\* Where "except Exception" takes receive_transcriptions: it prints the
\* error and sleeps one second, then the loop goes on.
AfterReceiveException == "errsleep"

\* ws.recv() returns a message of the given kind; a completed transcription
\* carries text.  okT and okM: see WriteTranscript.  Whatever is raised here
\* (json.loads on a malformed message, OSError from a file) is caught by
\* "except Exception", which sleeps one second and goes on with the loop.
ReceiveMessage(kind, text, okT, okM) ==
    /\ pc["recv"] = "recv"
    /\ CanRun("recv")
    /\ conn[rconn] = "open"
    /\ Inputs < MaxInputs
    /\ events' = events + 1
    /\ lastMsg' = IF kind = "malformed" THEN "malformed"
                  ELSE IF kind # "completed" THEN "ignored"
                  ELSE IF Strip(text) = <<>> THEN "blank"
                  ELSE "line"
    /\ IF kind = "completed" /\ Strip(text) # <<>>
       THEN LET w == WriteTranscript(clock, Strip(text), okT, okM)
            IN  /\ transcript' = w.transcript
                /\ mentions' = w.mentions
                /\ lastWrite' = <<w.outcome, Strip(text)>>
                /\ received' = IF w.outcome = "transcript_failed" THEN received
                               ELSE Append(received, <<rconn, Strip(text)>>)
                /\ pc' = [pc EXCEPT !["recv"] =
                             IF w.outcome = "ok" THEN "loop"
                             ELSE AfterReceiveException]
       ELSE /\ UNCHANGED <<transcript, mentions, lastWrite, received>>
            /\ pc' = [pc EXCEPT !["recv"] =
                         IF kind = "malformed" THEN AfterReceiveException
                         ELSE "loop"]
    /\ rconn' = NoConn
    /\ UNCHANGED <<running, ws, reconnect_delay, conn, slept, hconn, chunk, nread,
                   metadata, current, clock, signalled, closeHist, lastConnect,
                   okSince, prevWait, keywords, wire>>

\* ws.recv() raises ConnectionClosed: _reconnect() is called.
ReceiveClosed ==
    /\ pc["recv"] = "recv"
    /\ CanRun("recv")
    /\ conn[rconn] = "closed"
    /\ EnterReconnect("recv")
    /\ rconn' = NoConn
    /\ UNCHANGED <<running, ws, reconnect_delay, conn, hconn, chunk, nread,
                   fileVars, clock, events, signalled, closeHist, lastConnect,
                   prevWait, lastWrite,
                   keywords, wire, recvHist>>

\* except Exception: asyncio.sleep(1) is over.
ReceiveErrorSleepOver ==
    /\ pc["recv"] = "errsleep"
    /\ CanRun("recv")
    /\ pc' = [pc EXCEPT !["recv"] = "loop"]
    /\ UNCHANGED <<running, ws, reconnect_delay, conn, slept, rconn, hconn, chunk,
                   nread, fileVars, clock, events, signalled, closeHist,
                   lastConnect, okSince, prevWait, lastWrite,
                   keywords, wire, recvHist>>

\* ------------------------------------------------------- the specification
\* The steps of run(), of send_audio and of receive_transcriptions that wait
\* for nothing outside the program, or for what a timer or the connect
\* timeout brings about.
MainStep ==
    \/ SetupMeetingDirectory
    \/ ConnectOpens("main")
    \/ ConnectFails("main")
    \/ Handshake("main")
    \/ GatherReturns
    \/ \E ok \in BOOLEAN : Finally(ok)
    \/ CloseConnection

SendStep ==
    \/ SendLoop
    \/ SendChunk
    \/ WakeAndConnect("send")
    \/ ConnectOpens("send")
    \/ ConnectFails("send")
    \/ Handshake("send")

ReceiveStep ==
    \/ ReceiveLoop
    \/ ReceiveClosed
    \/ ReceiveErrorSleepOver
    \/ WakeAndConnect("recv")
    \/ ConnectOpens("recv")
    \/ ConnectFails("recv")
    \/ Handshake("recv")

\* What the audio source, the server, the network, the clock and the signals do.
Environment ==
    \/ Signal
    \/ Tick
    \/ \E c \in ConnIds : ConnectionLost(c)
    \/ ReadChunk
    \/ ReadEndOfStream
    \/ \E kind \in Kinds, text \in Texts, okT \in BOOLEAN, okM \in BOOLEAN :
           ReceiveMessage(kind, text, okT, okM)

Next == MainStep \/ SendStep \/ ReceiveStep \/ Environment

Spec == Init /\ [][Next]_vars

\* The event loop runs every task that is ready, timers expire and
\* websockets.connect ends (it has an open timeout); nothing is assumed of
\* the environment.
FairSpec ==
    Spec /\ WF_vars(MainStep) /\ WF_vars(SendStep) /\ WF_vars(ReceiveStep)

\* ------------------------------------------- update_metadata_ended, alone
\* A workspace opened at some time (or whose metadata.json is missing), on
\* which update_metadata_ended() is called again and again while the wall
\* clock advances.
CloseInit ==
    /\ pc = [main |-> "finally", send |-> "done", recv |-> "done"]
    /\ running = FALSE
    /\ ws = NoConn
    /\ reconnect_delay = initial_reconnect_delay
    /\ conn = [c \in ConnIds |-> "unused"]
    /\ slept = [t \in Tasks |-> 0]
    /\ rconn = NoConn
    /\ hconn = [c \in Callers |-> NoConn]
    /\ chunk = 0
    /\ nread = 0
    /\ transcript = <<>>
    /\ mentions = <<>>
    /\ \E started \in 0..MaxCloseClock :
           /\ metadata \in { [status |-> "active", started_at |-> <<started>>,
                              ended_at |-> None],
                             [status |-> "absent", started_at |-> None,
                              ended_at |-> None] }
           /\ clock \in started..MaxCloseClock
    /\ current = "this"
    /\ events = 0
    /\ signalled = FALSE
    /\ closeCalls = 0
    /\ endedWrites = 0
    /\ lastConnect = "none"
    /\ okSince = FALSE
    /\ prevWait = 0
    /\ lastWrite = <<"none", <<>>>>
    /\ keywords = MENTION_KEYWORDS
    /\ wire = [c \in ConnIds |-> <<>>]
    /\ lastMsg = "none"
    /\ received = <<>>

\* The wall clock advances.
CloseTick ==
    /\ clock < MaxCloseClock
    /\ clock' = clock + 1
    /\ UNCHANGED <<pc, running, ws, reconnect_delay, conn, slept, rconn, hconn, chunk,
                   nread, fileVars, events, signalled, closeHist, lastConnect,
                   okSince, prevWait, lastWrite,
                   keywords, wire, recvHist>>

\* update_metadata_ended() is called.
CloseCall(ok) ==
    /\ closeCalls < MaxCloses
    /\ metadata' = UpdateMetadataEnded(metadata, clock, ok)
    /\ closeCalls' = closeCalls + 1
    /\ endedWrites' = IF metadata.status # "absent" /\ ok
                      THEN endedWrites + 1 ELSE endedWrites
    /\ UNCHANGED <<pc, running, ws, reconnect_delay, conn, slept, rconn, hconn, chunk,
                   nread, transcript, mentions, current, clock, events, signalled,
                   lastConnect, okSince, prevWait, lastWrite,
                   keywords, wire, recvHist>>

CloseNext == CloseTick \/ \E ok \in BOOLEAN : CloseCall(ok)

CloseSpec == CloseInit /\ [][CloseNext]_vars

\* ------------------------------------------------- _check_mentions, alone
\* The texts of the examples: "Hey Claude, can you summarize?",
\* "claude is a nice name", "no keywords here".
HeyClaudeCanYou ==
    <<"H", "e", "y", " ", "C", "l", "a", "u", "d", "e", ",", " ", "c", "a",
      "n", " ", "y", "o", "u", " ", "s", "u", "m", "m", "a", "r", "i", "z",
      "e", "?">>

ClaudeIsAName ==
    <<"c", "l", "a", "u", "d", "e", " ", "i", "s", " ", "a", " ", "n", "i",
      "c", "e", " ", "n", "a", "m", "e">>

NoKeywordsHere ==
    <<"n", "o", " ", "k", "e", "y", "w", "o", "r", "d", "s", " ", "h", "e",
      "r", "e">>

\* The transcripts _check_mentions is called with: the examples, and
\* "hey ai", "Hey Bob", "AI?", "What about Claude", "said",
\* "ok?", "CAN YOU", "assistant ai", "Hey Assistant".
ClassifyTexts ==
    { HeyClaudeCanYou, ClaudeIsAName, NoKeywordsHere,
      <<"h", "e", "y", " ", "a", "i">>,
      <<"H", "e", "y", " ", "B", "o", "b">>,
      <<"A", "I", "?">>,
      <<"W", "h", "a", "t", " ", "a", "b", "o", "u", "t", " ", "C", "l", "a",
        "u", "d", "e">>,
      <<"s", "a", "i", "d">>,
      <<"o", "k", "?">>,
      <<"C", "A", "N", " ", "Y", "O", "U">>,
      <<"a", "s", "s", "i", "s", "t", "a", "n", "t", " ", "a", "i">>,
      <<"H", "e", "y", " ", "A", "s", "s", "i", "s", "t", "a", "n", "t">> }

\* The keyword lists _load_config can leave in MENTION_KEYWORDS: the built-in
\* list, and lists a configuration file sets (one of them empty, one with a
\* keyword in capitals).
KeywordLists ==
    { MENTION_KEYWORDS,
      << <<"c", "l", "a", "u", "d", "e">> >>,
      << <<"b", "o", "b">> >>,
      << <<"B", "o", "b">>, <<"a", "i">> >>,
      << <<"a", "i">>, <<"c", "l", "a", "u", "d", "e">> >>,
      << >> }

\* _write_transcript has appended a line to transcript.txt and is about to
\* call _check_mentions with its timestamp and text.
ClassifyInit ==
    /\ pc = [main |-> "gather", send |-> "loop", recv |-> "check"]
    /\ running = TRUE
    /\ ws = 1
    /\ reconnect_delay = initial_reconnect_delay
    /\ conn = [c \in ConnIds |-> IF c = 1 THEN "open" ELSE "unused"]
    /\ slept = [t \in Tasks |-> 0]
    /\ rconn = NoConn
    /\ hconn = [c \in Callers |-> NoConn]
    /\ chunk = 0
    /\ nread = 0
    /\ \E text \in ClassifyTexts : transcript = << [ts |-> 0, text |-> text] >>
    /\ mentions = <<>>
    /\ metadata = [status |-> "active", started_at |-> <<0>>, ended_at |-> None]
    /\ current = "this"
    /\ clock = 0
    /\ events = 1
    /\ signalled = FALSE
    /\ closeCalls = 0
    /\ endedWrites = 0
    /\ lastConnect = "ok"
    /\ okSince = TRUE
    /\ prevWait = 0
    /\ lastWrite = <<"none", <<>>>>
    /\ keywords \in KeywordLists
    /\ wire = [c \in ConnIds |-> IF c = 1 THEN << <<"session.update", 0>> >> ELSE <<>>]
    /\ lastMsg = "none"
    /\ received = <<>>

\* self._check_mentions(timestamp, transcript), the append to mentions.txt
\* succeeding.
CheckMentionsCall ==
    /\ pc["recv"] = "check"
    /\ mentions' = mentions \o CheckMentions(transcript[1].ts, transcript[1].text)
    /\ pc' = [pc EXCEPT !["recv"] = "loop"]
    /\ UNCHANGED <<running, ws, reconnect_delay, conn, slept, rconn, hconn, chunk,
                   nread, transcript, metadata, current, clock, events, signalled,
                   closeHist, lastConnect, okSince, prevWait, lastWrite,
                   keywords, wire, recvHist>>

ClassifyNext == CheckMentionsCall

ClassifySpec == ClassifyInit /\ [][ClassifyNext]_vars

\* ---------------------------------------------------------------- claims
\* self.ws refers to a connection that is open.
WsOpen == ws # NoConn /\ conn[ws] = "open"

\* Task t enters the sleep of _reconnect in this step.
StartsSleep(t) == pc[t] # "sleep" /\ pc'[t] = "sleep"

\* C1: a shutdown signal delivered while send_audio is blocked on the audio
\* read leads to both send_audio and receive_transcriptions having returned
\* and metadata status being "ended", whatever the audio source and the
\* server do afterwards (nothing at all included).
C1_ShutdownTerminates ==
    (signalled /\ pc["send"] = "read")
        ~> (pc["send"] = "done" /\ pc["recv"] = "done" /\ metadata.status = "ended")

\* C2: once run() is past setup_meeting_directory, update_metadata_ended is
\* never called twice and ended_at never written twice, it is not called
\* before the try block is left, and when run() has returned it has been
\* called exactly once, however the run ended.
C2_CloseExactlyOnce ==
    /\ closeCalls <= 1
    /\ endedWrites <= 1
    /\ pc["main"] \in {"setup", "connecting", "handshake", "gather", "finally"}
           => closeCalls = 0
    /\ pc["main"] \in {"closing", "done"} => closeCalls = 1

\* C2: run() has returned after its first connect() failed, with no signal, and
\* the close was made.
C2_Witness ==
    /\ pc = [main |-> "done", send |-> "idle", recv |-> "idle"]
    /\ lastConnect = "failed"
    /\ ~signalled
    /\ closeCalls = 1
    /\ metadata.status = "ended"

\* C3: a call of update_metadata_ended on metadata whose status is already
\* "ended" leaves the metadata record, ended_at included, as it was.
C3_CloseIdempotent ==
    [][(closeCalls' > closeCalls /\ metadata.status = "ended")
           => metadata' = metadata]_vars

\* C4: in every reachable state reconnect_delay is at least the initial
\* delay 1 and at most max_reconnect_delay = 30.
C4_DelayWithinBounds ==
    /\ initial_reconnect_delay <= reconnect_delay
    /\ reconnect_delay <= max_reconnect_delay

\* C4: both paths are in _reconnect, one has slept the ceiling and doubled
\* the delay once more.
C4_Witness ==
    /\ reconnect_delay = max_reconnect_delay
    /\ \E t \in Tasks : pc[t] = "connecting" /\ slept[t] = max_reconnect_delay
    /\ \A t \in Tasks : pc[t] \in {"sleep", "connecting", "handshake"}

\* C5: a step in which a connect() returns leaves reconnect_delay at the
\* initial delay 1, and the first sleep of _reconnect that starts after a
\* connect() has returned lasts 1.
C5_DelayResetOnSuccess ==
    [][/\ (lastConnect' = "ok"
              /\ \E c \in Callers : pc[c] = "handshake" /\ pc'[c] # "handshake")
           => reconnect_delay' = initial_reconnect_delay
       /\ \A t \in Tasks :
              (okSince /\ StartsSleep(t)) => slept'[t] = initial_reconnect_delay]_vars

\* C6: as long as no connect() has succeeded since a reconnect attempt
\* failed, a sleep of _reconnect that starts lasts at least as long as the
\* sleep before that failed attempt.
C6_WaitsNonDecreasing ==
    [][\A t \in Tasks : StartsSleep(t) => slept'[t] >= prevWait]_vars

\* C7: when the last connect() failed, no shutdown was signalled and self.ws
\* is not an open connection, a connect attempt is eventually under way (or
\* the shutdown is signalled).
C7_ReconnectNeverAbandoned ==
    (lastConnect = "failed" /\ ~signalled /\ ~WsOpen)
        ~> (signalled \/ \E c \in Callers : pc[c] = "connecting")

\* C8: after a connect() that failed, the first one of run() included, and
\* without a shutdown signal, the client is still running: run() has not
\* gone to its finally block.
C8_ConnectFailureNotFatal ==
    (lastConnect = "failed" /\ ~signalled)
        => (running /\ pc["main"] \notin {"finally", "closing", "done"})

\* C9: once an append to transcript.txt or to mentions.txt has failed, no
\* further message of the server is processed and nothing more is written.
C9_PersistenceFailureIsFatal ==
    [][lastWrite[1] \in {"transcript_failed", "mention_failed"}
           => (events' = events /\ transcript' = transcript /\ mentions' = mentions)]_vars

\* C10: a step that appends to mentions.txt appends one record, and has
\* appended the line of the same text and timestamp to transcript.txt; a
\* step in which the append to transcript.txt fails leaves mentions.txt as
\* it was.
C10_MentionOnlyIfPersisted ==
    [][/\ Len(mentions') > Len(mentions)
           => /\ Len(mentions') = Len(mentions) + 1
              /\ Len(transcript') = Len(transcript) + 1
              /\ transcript'[Len(transcript')].text = mentions'[Len(mentions')].text
              /\ transcript'[Len(transcript')].ts = mentions'[Len(mentions')].ts
       /\ (events' # events /\ lastWrite'[1] = "transcript_failed")
           => (mentions' = mentions /\ transcript' = transcript)]_vars

\* C10: a first line that names a keyword was persisted with its mention, and
\* then the append of a second such line to transcript.txt failed: the
\* mentions are still the one of the first line.
C10_Witness ==
    /\ Len(transcript) = 1
    /\ Len(mentions) = 1
    /\ events = 2
    /\ lastWrite[1] = "transcript_failed"
    /\ CheckMentions(clock, lastWrite[2]) # <<>>

\* The numbers of the chunks sent on connection c, in the order sent.
ChunksOn(c) ==
    LET sent == SelectSeq(wire[c], LAMBDA m : m[1] = "input_audio_buffer.append")
    IN  [i \in 1..Len(sent) |-> sent[i][2]]

\* The session.update messages sent on connection c.
HandshakesOn(c) == Len(SelectSeq(wire[c], LAMBDA m : m[1] = "session.update"))

\* No caller of connect() is between opening connection c and its handshake.
ConnectOver(c) == \A caller \in Callers : hconn[caller] # c

\* Task t is in _reconnect (in its sleep, or in the connect() it calls).
InReconnect(t) == pc[t] \in {"sleep", "connecting", "handshake"}

\* C11: send_audio holds a chunk only between its read and its send, and it
\* is the chunk read last; a step that puts an input_audio_buffer.append on a
\* wire puts one, of the chunk held, whose number is above every number on
\* any wire, and the chunk is held no longer; a send that fails because the
\* connection is closed puts nothing on a wire and drops the chunk.
C11_ChunksInOrderOnce ==
    [][/\ (chunk # 0 => chunk = nread /\ pc["send"] = "send")
       /\ \A c \in ConnIds :
              ChunksOn(c)' # ChunksOn(c)
                  => /\ ChunksOn(c)' = Append(ChunksOn(c), chunk)
                     /\ chunk # 0 /\ chunk' = 0
                     /\ \A d \in ConnIds : \A i \in 1..Len(ChunksOn(d)) :
                            ChunksOn(d)[i] < chunk
                     /\ \A d \in ConnIds \ {c} : wire'[d] = wire[d]
       /\ (pc["send"] = "send" /\ pc'["send"] # "send" /\ ws # NoConn
               /\ conn[ws] = "closed")
              => (wire' = wire /\ chunk' = 0)]_vars

\* C11: the send of chunk 1 failed on the closed connection 1, send_audio
\* reconnected, and chunk 2 is the only chunk on a wire, on connection 2.
C11_Witness ==
    /\ nread = 2
    /\ conn[1] = "closed"
    /\ ChunksOn(1) = <<>>
    /\ ChunksOn(2) = <<2>>

C13_OneLinePerEvent ==
    [][(events' # events /\ lastMsg' \in {"line", "blank"}
            /\ lastWrite'[1] # "transcript_failed")
           => Len(transcript') = Len(transcript) + 1]_vars

\* C13 as amended: a completed event received whose text is not blank and
\* whose append does not fail adds exactly one line, of that text without its
\* surrounding whitespace; one whose text is blank adds none; and once
\* setup_meeting_directory is over, a step leaves the lines written as they
\* are and adds at most one.
C13_OneLinePerNonBlankEvent ==
    [][/\ (events' # events /\ lastMsg' = "line"
               /\ lastWrite'[1] # "transcript_failed")
              => /\ Len(transcript') = Len(transcript) + 1
                 /\ transcript'[Len(transcript')].text = lastWrite'[2]
                 /\ lastWrite'[2] # <<>>
                 /\ Head(lastWrite'[2]) \notin Whitespace
                 /\ lastWrite'[2][Len(lastWrite'[2])] \notin Whitespace
       /\ (events' # events /\ lastMsg' = "blank") => transcript' = transcript
       /\ pc["main"] # "setup"
              => /\ Len(transcript') \in {Len(transcript), Len(transcript) + 1}
                 /\ SubSeq(transcript', 1, Len(transcript)) = transcript]_vars

\* C13: a line was written, and then a completed event with a blank
\* transcript was received: the file still has the one line.
C13_Witness ==
    /\ events = 2
    /\ lastMsg = "blank"
    /\ lastWrite[1] = "ok"
    /\ Len(transcript) = 1

\* C14: no connection carries more than one session.update, a connection
\* not opened carries nothing, and a connection that is open when the
\* connect() that opened it is over carries exactly one: a connection whose
\* handshake was not sent is closed, and nothing is sent on it afterwards.
C14_HandshakeOncePerConnection ==
    \A c \in ConnIds :
        /\ HandshakesOn(c) <= 1
        /\ conn[c] = "unused" => wire[c] = <<>>
        /\ (conn[c] = "open" /\ ConnectOver(c)) => HandshakesOn(c) = 1
        /\ (conn[c] # "unused" /\ ConnectOver(c) /\ HandshakesOn(c) = 0)
               => conn[c] = "closed"

\* C14: the receiving path has reconnected: connection 1 is closed, self.ws
\* is connection 2, open, and each of the two carries one session.update.
C14_Witness ==
    /\ conn[1] = "closed"
    /\ ws = 2
    /\ conn[2] = "open"
    /\ ConnectOver(2)
    /\ HandshakesOn(1) = 1
    /\ HandshakesOn(2) = 1
    /\ pc["recv"] = "recv"
    /\ rconn = 2

\* C15: send_audio and receive_transcriptions are never both in _reconnect.
C15_SingleReconnect == ~(InReconnect("send") /\ InReconnect("recv"))

\* C16: send_audio is never in _reconnect: it neither sleeps the backoff nor
\* calls connect().
C16_SenderNeverReconnects == pc["send"] \notin {"sleep", "connecting", "handshake"}

\* C17: when _check_mentions has returned, mentions.txt has no record if no
\* keyword of the list is a substring of the text (both in lower case), and
\* otherwise one record of the text, QUESTION if the text contains "?" or its
\* lower-case form contains one of the fixed question phrases, MENTION if
\* not; so for the three examples with the list [claude].
C17_ClassifyMatchesRule ==
    pc["recv"] = "loop" =>
        LET text == transcript[1].text
            matched == \E i \in 1..Len(keywords) :
                           Contains(Lower(keywords[i]), Lower(text))
            question == \/ \E i \in 1..Len(text) : text[i] = "?"
                        \/ \E i \in 1..Len(question_phrases) :
                               Contains(question_phrases[i], Lower(text))
            claude == << <<"c", "l", "a", "u", "d", "e">> >>
        IN  /\ ~matched => mentions = <<>>
            /\ matched => /\ Len(mentions) = 1
                          /\ mentions[1].text = text
                          /\ mentions[1].kind =
                                 IF question THEN "QUESTION" ELSE "MENTION"
            /\ (text = HeyClaudeCanYou /\ keywords = claude)
                   => (mentions # <<>> /\ mentions[1].kind = "QUESTION")
            /\ (text = ClaudeIsAName /\ keywords = claude)
                   => (mentions # <<>> /\ mentions[1].kind = "MENTION")
            /\ (text = NoKeywordsHere /\ keywords = claude) => mentions = <<>>

\* C17: "What about Claude", with the built-in list: a keyword in capitals
\* and a question phrase in capitals, no "?": classified QUESTION.
C17_Witness ==
    /\ pc["recv"] = "loop"
    /\ keywords = MENTION_KEYWORDS
    /\ transcript[1].text = <<"W", "h", "a", "t", " ", "a", "b", "o", "u", "t", " ",
                              "C", "l", "a", "u", "d", "e">>
    /\ Len(mentions) = 1
    /\ mentions[1].kind = "QUESTION"

\* C18: when _check_mentions has returned, a text that contains "hey k" (in
\* any case) for a keyword k of the list, and no "?", has a QUESTION record.
C18_HeyKeywordIsQuestion ==
    pc["recv"] = "loop" =>
        \A i \in 1..Len(keywords) :
            (/\ Contains(<<"h", "e", "y", " ">> \o Lower(keywords[i]),
                         Lower(transcript[1].text))
             /\ ~Contains(<<"?">>, transcript[1].text))
                => (mentions # <<>> /\ mentions[1].kind = "QUESTION")

\* C19: a step that receives an error, speech_started, speech_stopped or
\* unknown event, or a payload that does not decode, leaves self.ws, every
\* connection, transcript.txt and mentions.txt as they are, starts no
\* reconnect and leaves receive_transcriptions in its loop (after the
\* one-second sleep of the exception handler, if the payload did not decode).
C19_NonFatalMessagesIgnored ==
    [][/\ (events' # events /\ lastMsg' \in {"ignored", "malformed"})
              => /\ ws' = ws /\ conn' = conn /\ running' = running
                 /\ transcript' = transcript /\ mentions' = mentions
                 /\ slept' = slept /\ ~InReconnect("recv")'
                 /\ pc'["recv"] \in {"loop", "errsleep"}
                 /\ lastMsg' = "ignored" => pc'["recv"] = "loop"
       /\ (pc["recv"] = "errsleep" /\ pc'["recv"] # "errsleep")
              => pc'["recv"] = "loop"]_vars

\* C19: after a line was written, a payload that does not decode was
\* received: the line is there, the connection open, the receiving path in
\* the sleep of its exception handler.
C19_Witness ==
    /\ events = 2
    /\ lastMsg = "malformed"
    /\ lastWrite[1] = "ok"
    /\ Len(transcript) = 1
    /\ WsOpen
    /\ pc["recv"] = "errsleep"

C23_OneMentionPerLine ==
    pc["recv"] = "loop" =>
        LET text == transcript[1].text
            hits == {i \in 1..Len(keywords) :
                         Contains(Lower(keywords[i]), Lower(text))}
        IN  /\ Len(mentions) <= 1
            /\ hits # {} => (Len(mentions) = 1 /\ mentions[1].text = text)

\* C23: "assistant ai" with the built-in list: two keywords occur in the
\* text, one record was written.
C23_Witness ==
    /\ pc["recv"] = "loop"
    /\ keywords = MENTION_KEYWORDS
    /\ transcript[1].text = <<"a", "s", "s", "i", "s", "t", "a", "n", "t", " ",
                              "a", "i">>
    /\ Len(mentions) = 1

\* C24: once metadata status is "ended", no step changes transcript.txt or
\* mentions.txt; and when the status becomes "ended", send_audio and
\* receive_transcriptions have both returned, or were never started.
C24_NoWriteAfterClose ==
    [][/\ metadata.status = "ended"
              => (transcript' = transcript /\ mentions' = mentions)
       /\ metadata'.status = "ended"
              => \A t \in Tasks : pc'[t] \in {"idle", "done"}]_vars

\* C24: a line and its mention were written, both tasks have returned after a
\* shutdown signal, and the workspace was closed with the files as they were.
C24_Witness ==
    /\ metadata.status = "ended"
    /\ pc["send"] = "done"
    /\ pc["recv"] = "done"
    /\ Len(transcript) = 1
    /\ Len(mentions) = 1

\* C25: every open connection is the one self.ws refers to, and when run()
\* has returned no connection is open.
C25_OneConnectionNoLeak ==
    /\ \A c \in ConnIds : conn[c] = "open" => c = ws
    /\ pc["main"] = "done" => \A c \in ConnIds : conn[c] # "open"

\* C26: when the shutdown was signalled, no _reconnect goes from its backoff
\* sleep to connect().
C26_NoConnectAfterShutdown ==
    [][signalled => \A t \in Tasks : ~(pc[t] = "sleep" /\ pc'[t] = "connecting")]_vars

\* C27: when send_audio has returned at the end of the audio stream, with no
\* shutdown signal, run() eventually returns with the workspace closed
\* (unless a shutdown signal comes first).
C27_StopsAtEndOfStream ==
    (pc["send"] = "done" /\ pc["main"] = "gather" /\ ~signalled)
        ~> (signalled \/ (pc["main"] = "done" /\ current = "absent"))

====
